---- MODULE Spec2Model ----
(***************************************************************************)
(* Coffee shop API (backend/src/api.py): five Flask routes over the drink  *)
(* table, four of them wrapped by requires_auth(permission).               *)
(*                                                                         *)
(* Spec      one request at a time, each handler one atomic step           *)
(* SpecConc  several workers; DELETE /drinks/<id> split at its two store   *)
(*           accesses (the lookup and drink.delete())                      *)
(*                                                                         *)
(* The operators for auth/auth.py and database/models.py follow the       *)
(* written specification (sections 3, 4, 6 and 7).                         *)
(***************************************************************************)
EXTENDS Integers, Sequences, FiniteSets, TLC

VARIABLES drinks, last, pc, req, resp

vars == <<drinks, last, pc, req, resp>>

(* ---------------------------- bounds ----------------------------------- *)

MaxId == 2
NumProcs == 2

Ids == 1..MaxId
Procs == 1..NumProcs

(* ------------------------- Python values ------------------------------- *)

None == [type |-> "None", str |-> "", items |-> <<>>]
PyStr(s) == [type |-> "str", str |-> s, items |-> <<>>]
PyList(l) == [type |-> "list", str |-> "", items |-> l]

Truthy(v) ==
  CASE v.type = "None" -> FALSE
    [] v.type = "str" -> v.str # ""
    [] v.type = "list" -> v.items # <<>>

Titles == {"Latte", "Mocha"}

Recipe1 == <<[name |-> "milk", color |-> "white", parts |-> 1],
             [name |-> "coffee", color |-> "brown", parts |-> 2]>>

Recipes == {Recipe1}

(* request bodies: JSON objects with any subset of the keys title, recipe *)
Bodies ==
  { [keys |-> {}, title |-> None, recipe |-> None] }
    \cup { [keys |-> {"title"}, title |-> PyStr(t), recipe |-> None] : t \in Titles }
    \cup { [keys |-> {"recipe"}, title |-> None, recipe |-> PyList(r)] : r \in Recipes }
    \cup { [keys |-> {"title", "recipe"}, title |-> PyStr(t), recipe |-> PyList(r)] :
             t \in Titles, r \in Recipes }

(* POST /drinks takes {title, recipe} *)
PostBodies == { b \in Bodies : b.keys = {"title", "recipe"} }

(* dict.get(key, None) *)
BodyGet(body, key) ==
  IF key \in body.keys
  THEN (IF key = "title" THEN body.title ELSE body.recipe)
  ELSE None

(* ------------------------------ json ----------------------------------- *)
(* JSON text is a sequence of tokens. *)

DigitStr == <<"0", "1", "2", "3", "4", "5", "6", "7", "8", "9">>

RECURSIVE DumpItems(_)
DumpItems(items) ==
  IF items = <<>> THEN <<>>
  ELSE <<"{", "name", Head(items).name, "color", Head(items).color,
         "parts", DigitStr[Head(items).parts + 1], "}">> \o DumpItems(Tail(items))

dumps(v) ==
  IF v.type = "None" THEN <<"null">>
  ELSE <<"[">> \o DumpItems(v.items) \o <<"]">>

ParseDigit(d) == CHOOSE n \in 0..9 : DigitStr[n + 1] = d

loads(s) ==
  IF s = <<"null">> THEN None
  ELSE PyList([i \in 1..((Len(s) - 2) \div 8) |->
                 [name |-> s[8 * (i - 1) + 4],
                  color |-> s[8 * (i - 1) + 6],
                  parts |-> ParseDigit(s[8 * (i - 1) + 8])]])

(* ----------------------- database/models.py ---------------------------- *)
(* A row of the drink table: title and the recipe column (JSON text). *)

Drink(title, recipe) == [title |-> title, recipe |-> recipe]

(* Drink.query.filter(Drink.id == id).one_or_none() is not None *)
Exists(store, id) == id \in DOMAIN store

(* drink.insert(): the row is stored under id *)
Insert(store, id, row) == [i \in DOMAIN store \cup {id} |-> IF i = id THEN row ELSE store[i]]

(* drink.update(): the row with this id takes the object's fields *)
Update(store, id, row) == [i \in DOMAIN store |-> IF i = id THEN row ELSE store[i]]

(* drink.delete(): the row with this id is gone; with no such row left
   there is nothing to remove *)
Delete(store, id) == [i \in DOMAIN store \ {id} |-> store[i]]

(* Drink.query.order_by(Drink.id).all(): the ids in ascending order *)
RECURSIVE OrderById(_)
OrderById(S) ==
  IF S = {} THEN <<>>
  ELSE LET m == CHOOSE x \in S : \A y \in S : x <= y
       IN <<m>> \o OrderById(S \ {m})

(* drink.long(): id, title and the whole recipe *)
long(store, id) ==
  [id |-> id, title |-> store[id].title, recipe |-> loads(store[id].recipe)]

(* drink.short(): id, title and the recipe without the quantities *)
ShortRecipe(v) ==
  IF v.type = "list"
  THEN PyList([i \in 1..Len(v.items) |->
                 [name |-> v.items[i].name, color |-> v.items[i].color]])
  ELSE v

short(store, id) ==
  [id |-> id, title |-> store[id].title, recipe |-> ShortRecipe(loads(store[id].recipe))]

(* --------------------------- auth/auth.py ------------------------------ *)

Permissions == {"get:drinks-detail", "post:drinks", "patch:drinks", "delete:drinks"}

(* What a request presents: the state of its Authorization header, the
   state of the token in it, and the token's permissions claim. *)
Token(header, jwt, hasPermissions, permissions) ==
  [header |-> header, jwt |-> jwt,
   hasPermissions |-> hasPermissions, permissions |-> permissions]

ValidToken(hasPermissions, permissions) ==
  Token("bearer", "valid", hasPermissions, permissions)

(* requests without a usable token; each claims every permission *)
BadTokens ==
  { Token("missing", "valid", TRUE, Permissions),
    Token("malformed", "valid", TRUE, Permissions) }
    \cup { Token("bearer", j, TRUE, Permissions) :
             j \in {"no_kid", "unknown_kid", "bad_signature", "expired", "bad_claims"} }

Tokens ==
  BadTokens
    \cup { ValidToken(FALSE, {}), ValidToken(TRUE, {}), ValidToken(TRUE, Permissions) }
    \cup { ValidToken(TRUE, {q}) : q \in Permissions }

AuthError(code, status_code) ==
  [ok |-> FALSE, code |-> code, description |-> code, status_code |-> status_code]

Payload == [ok |-> TRUE, code |-> "", description |-> "", status_code |-> 0]

get_token_auth_header(tok) ==
  CASE tok.header = "missing" -> AuthError("AuthHeaderMissing", 401)
    [] tok.header = "malformed" -> AuthError("AuthHeaderMalformed", 401)
    [] OTHER -> Payload

verify_decode_jwt(tok) ==
  CASE tok.jwt = "no_kid" -> AuthError("InvalidHeader", 401)
    [] tok.jwt = "unknown_kid" -> AuthError("InvalidKeyId", 401)
    [] tok.jwt = "bad_signature" -> AuthError("InvalidSignature", 401)
    [] tok.jwt = "expired" -> AuthError("TokenExpired", 401)
    [] tok.jwt = "bad_claims" -> AuthError("InvalidClaims", 401)
    [] OTHER -> Payload

check_permissions(permission, tok) ==
  CASE ~tok.hasPermissions -> AuthError("PermissionsClaimMissing", 400)
    [] permission \notin tok.permissions -> AuthError("Unauthorized", 403)
    [] OTHER -> Payload

requires_auth(permission, tok) ==
  IF ~get_token_auth_header(tok).ok THEN get_token_auth_header(tok)
  ELSE IF ~verify_decode_jwt(tok).ok THEN verify_decode_jwt(tok)
  ELSE check_permissions(permission, tok)

(* ---------------------------- responses -------------------------------- *)
(* A response: the HTTP status and the JSON body (keys names its keys). *)

Response(status, keys, success, error, message, list, delete) ==
  [status |-> status, keys |-> keys, success |-> success, error |-> error,
   message |-> message, drinks |-> list, delete |-> delete]

ErrorBody(error, message) ==
  Response(error, {"success", "error", "message"}, FALSE, error, message, <<>>, 0)

not_found == ErrorBody(404, "resource not found")

(* a handler that answers 401 whatever the error carries *)
auth_error_401(error) == ErrorBody(401, error.description)

auth_error(error) == ErrorBody(error.status_code, error.description)

(* the 500 handler's body registered for 400 *)
bad_request_500 == ErrorBody(500, "Internal Server Error")

bad_request == ErrorBody(400, "Bad Request")

(* abort(code): the handler registered for the code answers *)
abort(code) == IF code = 404 THEN not_found ELSE bad_request

(* what a handler leaves behind: the table, the response, and whether the
   store raised *)
Outcome(store, response, raised) ==
  [drinks |-> store, resp |-> response, raised |-> raised]

(* ---------------------------- handlers --------------------------------- *)

(* Drink.query.all() without order_by: here the rows come newest first *)
get_drinks_unordered(store) ==
  LET ids == OrderById(DOMAIN store)
      n == Len(ids)
      f_drinks == [i \in 1..n |-> short(store, ids[n + 1 - i])]
  IN Outcome(store,
             Response(200, {"success", "drinks"}, TRUE, 0, "", f_drinks, 0), FALSE)

get_drinks(store) ==
  LET ids == OrderById(DOMAIN store)
      f_drinks == [i \in 1..Len(ids) |-> short(store, ids[i])]
  IN Outcome(store,
             Response(200, {"success", "drinks"}, TRUE, 0, "", f_drinks, 0), FALSE)

get_drink_detail(store) ==
  LET ids == OrderById(DOMAIN store)
      f_drinks == [i \in 1..Len(ids) |-> long(store, ids[i])]
  IN Outcome(store,
             Response(200, {"success", "drinks"}, TRUE, 0, "", f_drinks, 0), FALSE)

(* body.get('recipes'): the wrong key, so the recipe is never read *)
create_drink_wrong_key(store, body, id, fail) ==
  LET new_title == BodyGet(body, "title")
      new_recipe == dumps(None)
      after == Insert(store, id, Drink(new_title, new_recipe))
  IN IF fail
     THEN Outcome(store, abort(400), TRUE)
     ELSE Outcome(after,
                  Response(200, {"success", "drinks"}, TRUE, 0, "",
                           <<long(after, id)>>, 0), FALSE)

(* id: the key the database gives the row; fail: the store raises *)
create_drink(store, body, id, fail) ==
  LET new_title == BodyGet(body, "title")
      new_recipe == dumps(BodyGet(body, "recipe"))
      after == Insert(store, id, Drink(new_title, new_recipe))
  IN IF fail
     THEN Outcome(store, abort(400), TRUE)
     ELSE Outcome(after,
                  Response(200, {"success", "drinks"}, TRUE, 0, "",
                           <<long(after, id)>>, 0), FALSE)

update_drink(store, id, body, fail) ==
  IF ~Exists(store, id)
  THEN Outcome(store, abort(404), FALSE)
  ELSE LET new_title == BodyGet(body, "title")
           new_recipe == dumps(BodyGet(body, "recipe"))
           title == IF Truthy(new_title) THEN new_title ELSE store[id].title
           recipe == IF new_recipe # <<>> THEN new_recipe ELSE store[id].recipe
           after == Update(store, id, Drink(title, recipe))
       IN IF fail
          THEN Outcome(store, abort(400), TRUE)
          ELSE Outcome(after,
                       Response(200, {"success", "drinks"}, TRUE, 0, "",
                                <<long(after, id)>>, 0), FALSE)

(* no check of the lookup's result *)
delete_lookup_unchecked(store, id) == TRUE

(* lines 184-187: the lookup; FALSE is abort(404) *)
delete_lookup(store, id) == Exists(store, id)

(* the except clause swallows the failure *)
delete_commit_swallow(store, id, fail) ==
  IF fail
  THEN Outcome(store,
               Response(200, {"success", "delete"}, TRUE, 0, "", <<>>, id), TRUE)
  ELSE Outcome(Delete(store, id),
               Response(200, {"success", "delete"}, TRUE, 0, "", <<>>, id), FALSE)

(* lines 189-195: drink.delete() and the answer; fail: the store raises,
   whether the row is still there or not *)
delete_commit(store, id, fail) ==
  IF fail
  THEN Outcome(store, abort(400), TRUE)
  ELSE Outcome(Delete(store, id),
               Response(200, {"success", "delete"}, TRUE, 0, "", <<>>, id), FALSE)

delete_drink(store, id, fail) ==
  IF ~delete_lookup(store, id)
  THEN Outcome(store, abort(404), FALSE)
  ELSE delete_commit(store, id, fail)

(* PATCH decorated with the permission of GET /drinks-detail *)
RoutePermission_copied(route) ==
  CASE route = "GET /drinks-detail" -> "get:drinks-detail"
    [] route = "POST /drinks" -> "post:drinks"
    [] route = "PATCH /drinks/id" -> "get:drinks-detail"
    [] route = "DELETE /drinks/id" -> "delete:drinks"

(* the permission each route hands to requires_auth *)
RoutePermission(route) ==
  CASE route = "GET /drinks-detail" -> "get:drinks-detail"
    [] route = "POST /drinks" -> "post:drinks"
    [] route = "PATCH /drinks/id" -> "patch:drinks"
    [] route = "DELETE /drinks/id" -> "delete:drinks"

(* ------------------------ one request at a time ------------------------ *)
(* last: the latest request and what became of it.                         *)
(*   route, tok, id   the request (id 0 on the routes without one)          *)
(*   json             the body its handler read ({} if it read none)        *)
(*   code             the kind of the AuthError raised ("" if none)         *)
(*   ran              the handler body ran                                  *)
(*   raised           the store raised in it                                *)
(*   resp             the response                                          *)

EmptyBody == [keys |-> {}, title |-> None, recipe |-> None]

NoResponse == Response(0, {}, FALSE, 0, "", <<>>, 0)

NoToken == Token("missing", "valid", FALSE, {})

Record(route, tok, id, json, code, ran, out) ==
  /\ drinks' = out.drinks
  /\ last' = [route |-> route, tok |-> tok, id |-> id, json |-> json,
              code |-> code, ran |-> ran, raised |-> out.raised, resp |-> out.resp]
  /\ UNCHANGED <<pc, req, resp>>

(* the guard raised: the AuthError handler answers, the handler never runs *)
Rejected(route, tok, id, error) ==
  Record(route, tok, id, EmptyBody, error.code, FALSE,
         Outcome(drinks, auth_error(error), FALSE))

GetDrinks ==
  \E tok \in Tokens :
    Record("GET /drinks", tok, 0, EmptyBody, "", TRUE, get_drinks(drinks))

GetDrinkDetail ==
  \E tok \in Tokens :
    LET a == requires_auth(RoutePermission("GET /drinks-detail"), tok)
    IN IF a.ok
       THEN Record("GET /drinks-detail", tok, 0, EmptyBody, "", TRUE,
                   get_drink_detail(drinks))
       ELSE Rejected("GET /drinks-detail", tok, 0, a)

PostDrinks ==
  \E tok \in Tokens :
    LET a == requires_auth(RoutePermission("POST /drinks"), tok)
    IN IF a.ok
       THEN \E body \in PostBodies, fail \in BOOLEAN, id \in Ids :
              /\ fail \/ id \notin DOMAIN drinks
              /\ Record("POST /drinks", tok, 0, body, "", TRUE,
                        create_drink(drinks, body, id, fail))
       ELSE Rejected("POST /drinks", tok, 0, a)

(* the lookup moved in front of the guard *)
PatchDrinks_lookup_first ==
  \E tok \in Tokens, id \in Ids :
    LET a == requires_auth(RoutePermission("PATCH /drinks/id"), tok)
    IN IF ~Exists(drinks, id)
       THEN Record("PATCH /drinks/id", tok, id, EmptyBody, "", TRUE,
                   Outcome(drinks, abort(404), FALSE))
       ELSE IF a.ok
       THEN \E body \in Bodies, fail \in BOOLEAN :
              Record("PATCH /drinks/id", tok, id, body, "", TRUE,
                     update_drink(drinks, id, body, fail))
       ELSE Rejected("PATCH /drinks/id", tok, id, a)

PatchDrinks ==
  \E tok \in Tokens, id \in Ids :
    LET a == requires_auth(RoutePermission("PATCH /drinks/id"), tok)
    IN IF a.ok
       THEN \E body \in Bodies, fail \in BOOLEAN :
              Record("PATCH /drinks/id", tok, id, body, "", TRUE,
                     update_drink(drinks, id, body, fail))
       ELSE Rejected("PATCH /drinks/id", tok, id, a)

DeleteDrinks ==
  \E tok \in Tokens, id \in Ids :
    LET a == requires_auth(RoutePermission("DELETE /drinks/id"), tok)
    IN IF a.ok
       THEN \E fail \in BOOLEAN :
              Record("DELETE /drinks/id", tok, id, EmptyBody, "", TRUE,
                     delete_drink(drinks, id, fail))
       ELSE Rejected("DELETE /drinks/id", tok, id, a)

(* ----------------------------- workers --------------------------------- *)
(* pc[p]    "idle", "found" (DELETE between its lookup and drink.delete())  *)
(*          or "done" (the response is out)                                 *)
(* req[p]   the request: route, tok, id; along: the workers that had found  *)
(*          the same drink and not yet deleted it when p's lookup found it  *)
(* resp[p]  the response                                                    *)

ConcTokens == { ValidToken(TRUE, Permissions), ValidToken(TRUE, {"get:drinks-detail"}) }

ConcBodies == { [keys |-> {"title", "recipe"}, title |-> PyStr("Latte"),
                 recipe |-> PyList(Recipe1)] }

NoRequest == [route |-> "", tok |-> NoToken, id |-> 0, along |-> {}]

Request(route, tok, id, along) == [route |-> route, tok |-> tok, id |-> id, along |-> along]

Answer(p, request, out) ==
  /\ pc' = [pc EXCEPT ![p] = "done"]
  /\ req' = [req EXCEPT ![p] = request]
  /\ resp' = [resp EXCEPT ![p] = out.resp]
  /\ drinks' = out.drinks
  /\ UNCHANGED last

WorkerPost(p) ==
  /\ pc[p] = "idle"
  /\ \E tok \in ConcTokens :
       LET a == requires_auth(RoutePermission("POST /drinks"), tok)
       IN IF a.ok
          THEN \E body \in ConcBodies, fail \in BOOLEAN, id \in Ids :
                 /\ fail \/ id \notin DOMAIN drinks
                 /\ Answer(p, Request("POST /drinks", tok, 0, {}),
                           create_drink(drinks, body, id, fail))
          ELSE Answer(p, Request("POST /drinks", tok, 0, {}),
                      Outcome(drinks, auth_error(a), FALSE))

DeleteLookup(p) ==
  /\ pc[p] = "idle"
  /\ \E tok \in ConcTokens, id \in Ids :
       LET a == requires_auth(RoutePermission("DELETE /drinks/id"), tok)
           along == { q \in Procs \ {p} : pc[q] = "found" /\ req[q].id = id }
       IN IF ~a.ok
          THEN Answer(p, Request("DELETE /drinks/id", tok, id, {}),
                      Outcome(drinks, auth_error(a), FALSE))
          ELSE IF ~delete_lookup(drinks, id)
          THEN Answer(p, Request("DELETE /drinks/id", tok, id, {}),
                      Outcome(drinks, abort(404), FALSE))
          ELSE /\ pc' = [pc EXCEPT ![p] = "found"]
               /\ req' = [req EXCEPT ![p] = Request("DELETE /drinks/id", tok, id, along)]
               /\ UNCHANGED <<drinks, last, resp>>

DeleteCommit(p) ==
  /\ pc[p] = "found"
  /\ \E fail \in BOOLEAN :
       Answer(p, req[p], delete_commit(drinks, req[p].id, fail))

Return(p) ==
  /\ pc[p] = "done"
  /\ pc' = [pc EXCEPT ![p] = "idle"]
  /\ req' = [req EXCEPT ![p] = NoRequest]
  /\ resp' = [resp EXCEPT ![p] = NoResponse]
  /\ UNCHANGED <<drinks, last>>

(* -------------------------- specifications ----------------------------- *)

NoDrinks == [i \in {} |-> None]

Init ==
  /\ drinks = NoDrinks
  /\ last = [route |-> "", tok |-> NoToken, id |-> 0, json |-> EmptyBody,
             code |-> "", ran |-> FALSE, raised |-> FALSE, resp |-> NoResponse]
  /\ pc = [p \in Procs |-> "idle"]
  /\ req = [p \in Procs |-> NoRequest]
  /\ resp = [p \in Procs |-> NoResponse]

Next ==
  \/ GetDrinks
  \/ GetDrinkDetail
  \/ PostDrinks
  \/ PatchDrinks
  \/ DeleteDrinks

Spec == Init /\ [][Next]_vars

(* the workers serve POST /drinks and DELETE /drinks/<id> *)
NextConc ==
  \E p \in Procs :
    \/ WorkerPost(p)
    \/ DeleteLookup(p)
    \/ DeleteCommit(p)
    \/ Return(p)

SpecConc == Init /\ [][NextConc]_vars

(* ============================ properties =============================== *)

ProtectedRoutes ==
  {"GET /drinks-detail", "POST /drinks", "PATCH /drinks/id", "DELETE /drinks/id"}

(* the permission the interface names for each protected route *)
Required(route) ==
  CASE route = "GET /drinks-detail" -> "get:drinks-detail"
    [] route = "POST /drinks" -> "post:drinks"
    [] route = "PATCH /drinks/id" -> "patch:drinks"
    [] route = "DELETE /drinks/id" -> "delete:drinks"
    [] OTHER -> ""

(* the token passes every check of the validator *)
Validated(tok) == tok.header = "bearer" /\ tok.jwt = "valid"

(* the token validated and its permission set holds the permission *)
Sufficient(tok, permission) ==
  Validated(tok) /\ tok.hasPermissions /\ permission \in tok.permissions

IsErrorBody(r, status, message) ==
  /\ r.status = status
  /\ r.keys = {"success", "error", "message"}
  /\ r.success = FALSE
  /\ r.error = status
  /\ r.message = message

(* C1: on a protected route the handler body runs (the store is read or
   changed, the request ends with 200, 404 or a store failure) only if that
   same request carried a validated token whose permissions hold the
   route's permission, whatever requests came before; and the store changes
   only in such a request. *)
C1_HandlerOnlyWhenAuthorized ==
  [][/\ ( last'.route \in ProtectedRoutes
            /\ ( last'.ran \/ last'.raised \/ last'.resp.status \in {200, 404}
                 \/ last'.resp.keys \cap {"drinks", "delete"} # {} ) )
          => Sufficient(last'.tok, Required(last'.route))
     /\ drinks' # drinks
          => ( last'.route \in ProtectedRoutes
               /\ Sufficient(last'.tok, Required(last'.route)) )]_vars

(* an authorized PATCH has run and changed a stored drink *)
C1_Witness ==
  /\ last.route = "PATCH /drinks/id"
  /\ last.ran
  /\ last.resp.status = 200
  /\ last.tok = ValidToken(TRUE, {"patch:drinks"})

(* C2: a valid token whose permissions attribute exists but lacks the
   route's permission ends with 403 Unauthorized, the handler does not run
   and the store is unchanged. *)
C2_InsufficientPermissionIs403 ==
  [][( /\ last'.route \in ProtectedRoutes
        /\ Validated(last'.tok)
        /\ last'.tok.hasPermissions
        /\ Required(last'.route) \notin last'.tok.permissions )
       => ( /\ last'.code = "Unauthorized"
            /\ IsErrorBody(last'.resp, 403, "Unauthorized")
            /\ ~last'.ran
            /\ drinks' = drinks )]_vars

(* PATCH /drinks/1 of a stored drink with permissions [get:drinks-detail] *)
C2_Witness ==
  /\ last.route = "PATCH /drinks/id"
  /\ last.id = 1
  /\ 1 \in DOMAIN drinks
  /\ last.tok = ValidToken(TRUE, {"get:drinks-detail"})
  /\ last.resp.status = 403

(* C3: a valid token without a permissions attribute ends, on every
   protected route, with PermissionsClaimMissing and 400, not with the 403
   of a token whose attribute lacks the permission. *)
C3_MissingPermissionsClaimIs400 ==
  last.route \in ProtectedRoutes /\ Validated(last.tok) /\ ~last.tok.hasPermissions
    => /\ last.code = "PermissionsClaimMissing"
       /\ IsErrorBody(last.resp, 400, last.code)
       /\ last.resp.status # 403
       /\ ~last.ran

C3_Witness ==
  /\ last.route = "DELETE /drinks/id"
  /\ last.tok = ValidToken(FALSE, {})
  /\ last.id \in DOMAIN drinks
  /\ last.resp.status = 400
  /\ last.code = "PermissionsClaimMissing"

(* C4: a successful PATCH changes only the fields its body holds: without
   a recipe the stored recipe stays, without a title the stored title
   stays, and no other drink changes. *)
C4_PatchChangesOnlyGivenFields ==
  [][( last'.route = "PATCH /drinks/id" /\ last'.resp.status = 200 )
       => ( /\ DOMAIN drinks' = DOMAIN drinks
            /\ \A i \in DOMAIN drinks \ {last'.id} : drinks'[i] = drinks[i]
            /\ "recipe" \notin last'.json.keys
                 => drinks'[last'.id].recipe = drinks[last'.id].recipe
            /\ "title" \notin last'.json.keys
                 => drinks'[last'.id].title = drinks[last'.id].title )]_vars

C6_PostAddsTheSubmittedDrink ==
  [][/\ ( last'.route = "POST /drinks" /\ last'.resp.status = 200
            /\ last'.json.keys = {"title", "recipe"} )
          => ( /\ Len(last'.resp.drinks) = 1
               /\ LET view == last'.resp.drinks[1]
                  IN /\ view.id \notin DOMAIN drinks
                     /\ DOMAIN drinks' = DOMAIN drinks \cup {view.id}
                     /\ view.title = last'.json.title
                     /\ view.recipe = last'.json.recipe
                     /\ \A k \in 1..Len(last'.json.recipe.items) :
                          view.recipe.items[k].parts = last'.json.recipe.items[k].parts
               /\ \A i \in DOMAIN drinks : drinks'[i] = drinks[i] )
     /\ ( last.route = "POST /drinks" /\ last.resp.status = 200
            /\ last'.route = "GET /drinks-detail" /\ last'.resp.status = 200 )
          => ( \E k \in 1..Len(last'.resp.drinks) :
                 last'.resp.drinks[k] = last.resp.drinks[1] )]_vars

(* a Latte with its two ingredients was added beside a stored drink *)
C6_Witness ==
  /\ last.route = "POST /drinks"
  /\ last.resp.status = 200
  /\ Cardinality(DOMAIN drinks) = 2
  /\ last.resp.drinks[1].title = PyStr("Latte")
  /\ last.resp.drinks[1].recipe = PyList(Recipe1)

(* C7: GET /drinks takes any request, with or without Authorization
   header, never changes the store, answers 200 with success true and the
   stored drinks in ascending id; two GET /drinks in a row return the same
   list. *)
C7_GetDrinksIsPublicAndRepeatable ==
  [][last'.route = "GET /drinks"
       => ( /\ drinks' = drinks
            /\ last'.resp.status = 200
            /\ last'.resp.success = TRUE
            /\ { last'.resp.drinks[k].id : k \in 1..Len(last'.resp.drinks) } = DOMAIN drinks
            /\ \A j, k \in 1..Len(last'.resp.drinks) :
                 j < k => last'.resp.drinks[j].id < last'.resp.drinks[k].id
            /\ last.route = "GET /drinks"
                 => last'.resp.drinks = last.resp.drinks )]_vars

(* a request without Authorization header got both stored drinks *)
C7_Witness ==
  /\ last.route = "GET /drinks"
  /\ last.tok.header = "missing"
  /\ last.resp.status = 200
  /\ Len(last.resp.drinks) = 2

(* C8: when the store raises in POST, PATCH or DELETE the request ends
   with 400 and {success: false, error: 400, message: "Bad Request"},
   never with 200 or 500. *)
C8_StoreFailureIs400 ==
  last.raised =>
    /\ last.route \in {"POST /drinks", "PATCH /drinks/id", "DELETE /drinks/id"}
    /\ IsErrorBody(last.resp, 400, "Bad Request")
    /\ last.resp.status \notin {200, 500}

(* the store raised in the update of a stored drink *)
C8_Witness ==
  /\ last.raised
  /\ last.route = "PATCH /drinks/id"
  /\ last.id \in DOMAIN drinks

(* C9: on PATCH and DELETE the guard comes before the lookup: a request
   without a sufficient token ends with the status of its auth failure
   (401 for a token that does not validate, 400 without permissions
   attribute, 403 otherwise), never 404, whether the id is stored or not. *)
C9_GuardBeforeLookup ==
  last.route \in {"PATCH /drinks/id", "DELETE /drinks/id"}
    /\ ~Sufficient(last.tok, Required(last.route))
    => /\ last.resp.status =
            (IF ~Validated(last.tok) THEN 401
             ELSE IF ~last.tok.hasPermissions THEN 400 ELSE 403)
       /\ last.resp.status # 404
       /\ IsErrorBody(last.resp, last.resp.status, last.code)
       /\ last.resp.drinks = <<>> /\ last.resp.delete = 0
       /\ ~last.ran

(* a PATCH without a sufficient token for an id that is not stored *)
C9_Witness ==
  /\ last.route = "PATCH /drinks/id"
  /\ ~Sufficient(last.tok, "patch:drinks")
  /\ last.id \notin DOMAIN drinks
  /\ DOMAIN drinks # {}
  /\ last.resp.status \in {400, 401, 403}

(* --------------------------- concurrent DELETE -------------------------- *)

AuthorizedDelete(r) ==
  /\ r.route = "DELETE /drinks/id"
  /\ Sufficient(r.tok, "delete:drinks")

(* the ids GET /drinks lists when the table is store *)
Listed(store) == { get_drinks(store).resp.drinks[k].id :
                     k \in 1..Len(get_drinks(store).resp.drinks) }

(* p and q are two authorized DELETEs of one stored drink in flight
   together: q had found it and not yet deleted it when p found it *)
Racing(p, q) ==
  /\ p # q
  /\ AuthorizedDelete(req[p]) /\ AuthorizedDelete(req[q])
  /\ req[p].id = req[q].id
  /\ q \in req[p].along

(* C10 as stated: of two authorized DELETEs of one stored id that ran
   interleaved at most one ends with 200 and the other with 404 or 400, and
   when both have ended the drink is absent and GET /drinks does not list
   it. *)
C10_AtMostOneDeleteSucceeds ==
  \A p, q \in Procs :
    Racing(p, q) /\ pc[p] = "done" /\ pc[q] = "done" =>
      /\ ~(resp[p].status = 200 /\ resp[q].status = 200)
      /\ \/ resp[p].status = 200 /\ resp[q].status \in {404, 400}
         \/ resp[q].status = 200 /\ resp[p].status \in {404, 400}
         \/ {resp[p].status, resp[q].status} \subseteq {404, 400}
      /\ req[p].id \notin DOMAIN drinks
      /\ req[p].id \notin Listed(drinks)

(* C10 amended: every authorized DELETE ends with 200, 404 or 400, and two
   that found the same drink may both end with 200 or both with 400; when
   one ends with 200 the drink is absent at that moment and GET /drinks
   does not list it, one that ends with 400 leaves the store as it was, and
   a DELETE whose lookup runs while the id is absent ends with 404. *)
C10_DeleteOutcomes ==
  [][\A p \in Procs :
       ( pc[p] # "done" /\ pc'[p] = "done" /\ AuthorizedDelete(req'[p]) )
         => ( /\ resp'[p].status \in {200, 404, 400}
              /\ resp'[p].status = 200
                   => ( /\ pc[p] = "found"
                        /\ req'[p].id \notin DOMAIN drinks'
                        /\ req'[p].id \notin Listed(drinks')
                        /\ resp'[p].delete = req'[p].id )
              /\ resp'[p].status = 400 => ( pc[p] = "found" /\ drinks' = drinks )
              /\ resp'[p].status = 404 => ( pc[p] = "idle" /\ drinks' = drinks )
              /\ ( pc[p] = "idle" /\ req'[p].id \notin DOMAIN drinks )
                   => IsErrorBody(resp'[p], 404, "resource not found") )]_vars

(* two DELETEs that found the same drink together both ended with 200 *)
C10_Witness ==
  \E p, q \in Procs :
    /\ Racing(p, q)
    /\ pc[p] = "done" /\ pc[q] = "done"
    /\ resp[p].status = 200 /\ resp[q].status = 200
    /\ req[p].id \notin DOMAIN drinks

====
